---- MODULE Spec2Model ----
(***************************************************************************)
(* Model of sniff_data() in ESP32.py: the polling loop that reads 8-byte   *)
(* HID reports from the R660 wheel, keeps only reports with id 0x07,       *)
(* rebuilds an absolute steering position from the wrapping 8-bit relative *)
(* steering byte, flips the two pedal bytes and prints one line per        *)
(* decoded report.                                                         *)
(*                                                                         *)
(* One action per way a pass through the try block / while loop can go.    *)
(* Python's None and not-yet-assigned locals are the empty tuple; a value  *)
(* v that is present is the one-element tuple <<v>>.                       *)
(***************************************************************************)
EXTENDS Integers, Sequences, FiniteSets

\* ---------------------------------------------------------------- constants
REPORT_ID_BYTE_INDEX == 0
STEER_BYTE_INDEX == 1
GAS_BYTE_INDEX == 3
BRAKE_BYTE_INDEX == 4
STEER_MIN == -2045
STEER_MAX == 2045

\* ------------------------------------------------------------------- bounds
\* Cap on the number of id-0x07 reports read in one behaviour.
MaxAccepted == 26

\* Cap on the number of id-0x07 reports read before the session is stopped,
\* in the specification of stopping.
MaxStopAccepted == 3

\* Raw steering bytes fed by the long-running specification.  0, 85, 170 go
\* once round the encoder in three steps of +85/+85/+86 (or back), which is
\* what drives the position to either clamp edge; 250 and 0 cross the wrap
\* point in one short step.
SteerBytes == {0, 85, 170, 250}
\* Raw (gas, brake) pairs fed by the long-running specification.
PedalPairs == {<<0, 255>>, <<255, 0>>}
\* Report ids other than 0x07 that the device multiplexes on the channel.
OtherTags == {1, 8}
AllBytes == 0..255

\* --------------------------------------------------------------- data types
None == <<>>
Some(v) == <<v>>
Val(o) == o[1]

\* Python data[i]: 0-based index into the list returned by device.read.
At(d, i) == d[i + 1]

MkReport(tag, steer, gas, brake) == <<tag, steer, 0, gas, brake, 0, 0, 0>>

VARIABLES
    pc,              \* "open" | "loop" | "finally" | "done"
    device,          \* "none" | "created" | "opened" | "closed"
    closes,          \* number of device.close() calls made
    data,            \* None before the first read, else Some(result of device.read(8))
    last_steer_raw,  \* None or Some(byte)
    delta,           \* None before the first delta is computed, else Some(int)
    steer_accum,     \* None, else Some(steer_position as left by line 92, before the clamp)
    steer_position,  \* accumulated position (line 63, 94)
    printed,         \* None, else Some(the last line printed at line 104)
    nTag7,           \* number of reports read whose byte 0 is 0x07
    nPrinted,        \* number of lines printed at line 104
    first_steer_raw, \* history: None, else Some(byte 1 of the first decoded report)
    clamp_altered    \* history: line 94 has changed the value left by line 92

vars == <<pc, device, closes, data, last_steer_raw, delta, steer_accum,
          steer_position, printed, nTag7, nPrinted, first_steer_raw,
          clamp_altered>>

decoder == <<last_steer_raw, delta, steer_accum, steer_position>>
output == <<printed, nPrinted>>
history == <<first_steer_raw, clamp_altered>>

\* ------------------------------------------------------------ pure helpers
Min2(a, b) == IF a < b THEN a ELSE b
Max2(a, b) == IF a > b THEN a ELSE b

\* line 68: `if not data`
IsEmpty(d) == Len(d) = 0

\* Variant: the filter lets every id from 0x07 upwards through.
AcceptsAtLeast7(d) == At(d, REPORT_ID_BYTE_INDEX) >= 7
\* Variant: the filter only drops id 0x01.
AcceptsNot1(d) == At(d, REPORT_ID_BYTE_INDEX) # 1

\* line 75: `if data[REPORT_ID_BYTE_INDEX] != 0x07: continue`
Accepts(d) == At(d, REPORT_ID_BYTE_INDEX) = 7

\* Variant: the wrap thresholds are taken at 127 inclusive.
WrapDeltaInclusive(current, last) ==
    LET d == current - last
    IN  IF d >= 127 THEN d - 256
        ELSE IF d <= -127 THEN d + 256
        ELSE d

\* Variant: the raw difference is used without wrap correction.
WrapDeltaNoWrap(current, last) == current - last

\* Variant: the correction is by 255, the largest byte, instead of 256.
WrapDelta255(current, last) ==
    LET d == current - last
    IN  IF d > 127 THEN d - 255
        ELSE IF d < -127 THEN d + 255
        ELSE d

\* Variant: the lower threshold is -128, as for a signed byte.
WrapDeltaStrictLow(current, last) ==
    LET d == current - last
    IN  IF d > 127 THEN d - 256
        ELSE IF d < -128 THEN d + 256
        ELSE d

\* Variant: only the upward jump is corrected.
WrapDeltaOneSided(current, last) ==
    LET d == current - last
    IN  IF d > 127 THEN d - 256 ELSE d

\* lines 85-89
WrapDelta(current, last) ==
    LET d == current - last
    IN  IF d > 127 THEN d - 256
        ELSE IF d < -127 THEN d + 256
        ELSE d

\* Variant: the upper limit is not applied.
ClampNoUpper(p) == Max2(STEER_MIN, p)

\* line 94
Clamp(p) == Max2(STEER_MIN, Min2(STEER_MAX, p))

\* Variant: a missing previous sample is treated as raw 0.
ReconstructFromZero(last, old_delta, old_accum, position, current) ==
    LET d == WrapDelta(current, IF last # None THEN Val(last) ELSE 0)
        sum == position + d
    IN  [last |-> Some(current), delta |-> Some(d),
         accum |-> Some(sum), position |-> Clamp(sum)]

\* Variant: deltas are added to the running sum as it was before the clamp,
\* and only the result is clamped.
ReconstructKeepsExcess(last, old_delta, old_accum, position, current) ==
    IF last # None
    THEN LET d == WrapDelta(current, Val(last))
             sum == (IF old_accum # None THEN Val(old_accum) ELSE position) + d
         IN  [last |-> Some(current), delta |-> Some(d),
              accum |-> Some(sum), position |-> Clamp(sum)]
    ELSE [last |-> Some(current), delta |-> old_delta,
          accum |-> old_accum, position |-> position]

\* Variant: the lower limit is applied to the printed value only; the
\* running sum is kept with the upper limit applied.
ReconstructLowerAtPrint(last, old_delta, old_accum, position, current) ==
    IF last # None
    THEN LET d == WrapDelta(current, Val(last))
             kept == IF old_accum # None THEN Min2(STEER_MAX, Val(old_accum))
                     ELSE position
             sum == kept + d
         IN  [last |-> Some(current), delta |-> Some(d),
              accum |-> Some(sum), position |-> Clamp(sum)]
    ELSE [last |-> Some(current), delta |-> old_delta,
          accum |-> old_accum, position |-> position]

\* Variant: the previous raw sample is not refreshed when the clamp cut
\* the position.
ReconstructSkipsOnClamp(last, old_delta, old_accum, position, current) ==
    IF last # None
    THEN LET d == WrapDelta(current, Val(last))
             sum == position + d
         IN  [last |-> IF Clamp(sum) = sum THEN Some(current) ELSE last,
              delta |-> Some(d),
              accum |-> Some(sum), position |-> Clamp(sum)]
    ELSE [last |-> Some(current), delta |-> old_delta,
          accum |-> old_accum, position |-> position]

\* Variant: the first sample seeds the position with its raw value.
ReconstructSeedsFromRaw(last, old_delta, old_accum, position, current) ==
    IF last # None
    THEN LET d == WrapDelta(current, Val(last))
             sum == position + d
         IN  [last |-> Some(current), delta |-> Some(d),
              accum |-> Some(sum), position |-> Clamp(sum)]
    ELSE [last |-> Some(current), delta |-> old_delta,
          accum |-> old_accum, position |-> current]

\* lines 80-95: steering reconstruction from the current raw sample.
Reconstruct(last, old_delta, old_accum, position, current) ==
    IF last # None
    THEN LET d == WrapDelta(current, Val(last))
             sum == position + d
         IN  [last |-> Some(current), delta |-> Some(d),
              accum |-> Some(sum), position |-> Clamp(sum)]
    ELSE [last |-> Some(current), delta |-> old_delta,
          accum |-> old_accum, position |-> position]

\* Variant: the gas byte is flipped around 256.
GasValueOffByOne(d) == 256 - At(d, GAS_BYTE_INDEX)
\* Variant: the brake byte is passed through.
BrakeValueRaw(d) == At(d, BRAKE_BYTE_INDEX)

\* line 99
GasValue(d) == 255 - At(d, GAS_BYTE_INDEX)
\* line 100
BrakeValue(d) == 255 - At(d, BRAKE_BYTE_INDEX)

\* ------------------------------------------------------------------- inputs
Reports ==
    { MkReport(t, s, p[1], p[2]) : t \in {7}, s \in SteerBytes, p \in PedalPairs }
    \cup
    { MkReport(t, s, p[1], p[2]) : t \in OtherTags, s \in {85}, p \in {<<0, 255>>} }

\* Reports covering every value of each decoded byte, one byte at a time.
ByteReports ==
    { MkReport(7, s, 255, 255) : s \in AllBytes }
    \cup { MkReport(7, 0, g, 255) : g \in AllBytes }
    \cup { MkReport(7, 0, 255, b) : b \in AllBytes }

\* Axis reports with every steering byte and both pedals released.
RoundReports == { MkReport(7, s, 255, 255) : s \in AllBytes }

\* -------------------------------------------------------------------- Init
Init ==
    /\ pc = "open"
    /\ device = "none"
    /\ closes = 0
    /\ data = None
    /\ last_steer_raw = None
    /\ delta = None
    /\ steer_accum = None
    /\ steer_position = 0
    /\ printed = None
    /\ nTag7 = 0
    /\ nPrinted = 0
    /\ first_steer_raw = None
    /\ clamp_altered = FALSE

\* ----------------------------------------------------------------- actions
\* lines 51-63: the device is created, opened, and the decoder state is set.
Open ==
    /\ pc = "open"
    /\ device' = "opened"
    /\ last_steer_raw' = None
    /\ steer_position' = 0
    /\ pc' = "loop"
    /\ UNCHANGED <<closes, data, delta, steer_accum, printed, nTag7, nPrinted, history>>

\* line 52 raises IOError: the handle exists but was never opened.
OpenIOError ==
    /\ pc = "open"
    /\ device' = "created"
    /\ pc' = "finally"
    /\ UNCHANGED <<closes, data, decoder, printed, nTag7, nPrinted, history>>

\* Variant: an empty read forgets the previous raw sample.
ReadEmptyResets ==
    /\ pc = "loop"
    /\ data' = Some(<<>>)
    /\ last_steer_raw' = None
    /\ UNCHANGED <<pc, device, closes, delta, steer_accum, steer_position,
                   printed, nTag7, nPrinted, history>>

\* lines 67-70: the read returns nothing; sleep and poll again.
ReadEmpty ==
    /\ pc = "loop"
    /\ data' = Some(<<>>)
    /\ UNCHANGED <<pc, device, closes, decoder, printed, nTag7, nPrinted, history>>

\* lines 67-77: a report of another type; sleep and poll again.
ReadFiltered(r) ==
    /\ pc = "loop"
    /\ ~IsEmpty(r)
    /\ ~Accepts(r)
    /\ data' = Some(r)
    /\ nTag7' = nTag7 + (IF At(r, REPORT_ID_BYTE_INDEX) = 7 THEN 1 ELSE 0)
    /\ UNCHANGED <<pc, device, closes, decoder, printed, nPrinted, history>>

\* lines 67-104: an axis report is decoded and one line is printed.
ReadAccepted(r) ==
    /\ pc = "loop"
    /\ ~IsEmpty(r)
    /\ Accepts(r)
    /\ data' = Some(r)
    /\ nTag7' = nTag7 + (IF At(r, REPORT_ID_BYTE_INDEX) = 7 THEN 1 ELSE 0)
    /\ LET current_steer_raw == At(r, STEER_BYTE_INDEX)
           new == Reconstruct(last_steer_raw, delta, steer_accum,
                              steer_position, current_steer_raw)
       IN  /\ delta' = new.delta
           /\ steer_accum' = new.accum
           /\ steer_position' = new.position
           /\ last_steer_raw' = new.last
           /\ first_steer_raw' = IF last_steer_raw = None /\ first_steer_raw = None
                                 THEN Some(current_steer_raw)
                                 ELSE first_steer_raw
           /\ clamp_altered' = (\/ clamp_altered
                                \/ /\ last_steer_raw # None
                                   /\ new.position # Val(new.accum))
    /\ printed' = Some([steering |-> steer_position',
                        gas |-> GasValue(r),
                        brake |-> BrakeValue(r)])
    /\ nPrinted' = nPrinted + 1
    /\ UNCHANGED <<pc, device, closes>>

\* line 67 raises IOError (line 108).
ReadIOError ==
    /\ pc = "loop"
    /\ pc' = "finally"
    /\ UNCHANGED <<device, closes, data, decoder, printed, nTag7, nPrinted, history>>

\* Ctrl+C while polling (line 106).
Interrupt ==
    /\ pc = "loop"
    /\ pc' = "finally"
    /\ UNCHANGED <<device, closes, data, decoder, printed, nTag7, nPrinted, history>>

\* Ctrl+C while the device is being created and opened (lines 51-53): the
\* handle may or may not exist yet.
InterruptOpening ==
    /\ pc = "open"
    /\ device' \in {"none", "created"}
    /\ pc' = "finally"
    /\ UNCHANGED <<closes, data, decoder, printed, nTag7, nPrinted, history>>

\* Variant: only a handle that was opened is closed.
FinallyOnlyOpened ==
    /\ pc = "finally"
    /\ IF device = "opened"
       THEN /\ device' = "closed"
            /\ closes' = closes + 1
       ELSE UNCHANGED <<device, closes>>
    /\ pc' = "done"
    /\ UNCHANGED <<data, decoder, printed, nTag7, nPrinted, history>>

\* lines 111-113
Finally ==
    /\ pc = "finally"
    /\ IF device # "none"
       THEN /\ device' = "closed"
            /\ closes' = closes + 1
       ELSE UNCHANGED <<device, closes>>
    /\ pc' = "done"
    /\ UNCHANGED <<data, decoder, printed, nTag7, nPrinted, history>>

Next ==
    \/ Open
    \/ OpenIOError
    \/ ReadEmpty
    \/ \E r \in Reports : ReadFiltered(r)
    \/ \E r \in Reports : nTag7 < MaxAccepted /\ ReadAccepted(r)
    \/ ReadIOError
    \/ Interrupt
    \/ InterruptOpening
    \/ Finally

Spec == Init /\ [][Next]_vars

\* The first two axis reports of a session, over every byte value: the
\* session is opened and reports are decoded until the first delta exists.
NextBytes ==
    \/ Open
    \/ \E r \in ByteReports : delta = None /\ ReadAccepted(r)

SpecBytes == Init /\ [][NextBytes]_vars

\* Out and back: two axis reports with any steering bytes a then b, and a
\* third one that carries a again.
NextRound ==
    \/ Open
    \/ \E r \in RoundReports :
          /\ \/ delta = None
             \/ /\ nTag7 = 2
                /\ At(r, STEER_BYTE_INDEX) = Val(first_steer_raw)
          /\ ReadAccepted(r)

SpecRound == Init /\ [][NextRound]_vars

\* Short sessions that are stopped.  Once an exception has been caught the
\* interpreter runs the finally block (lines 111-113), hence the fairness.
NextStop ==
    \/ Open
    \/ OpenIOError
    \/ ReadEmpty
    \/ \E r \in Reports : ReadFiltered(r)
    \/ \E r \in Reports : nTag7 < MaxStopAccepted /\ ReadAccepted(r)
    \/ ReadIOError
    \/ Interrupt
    \/ InterruptOpening
    \/ Finally

SpecStop == Init /\ [][NextStop]_vars /\ WF_vars(Finally)

\* ------------------------------------------------------------- properties
InRange(p) == STEER_MIN <= p /\ p <= STEER_MAX

\* data holds a report (not an empty read) whose id byte is 0x07.
HoldsAxisReport(d) == d # None /\ Len(Val(d)) > 0 /\ At(Val(d), REPORT_ID_BYTE_INDEX) = 7
\* data holds a report whose id byte is not 0x07.
HoldsOtherReport(d) == d # None /\ Len(Val(d)) > 0 /\ At(Val(d), REPORT_ID_BYTE_INDEX) # 7

\* This step read a report with id 0x07.
AxisReportStep == nTag7' = nTag7 + 1 /\ HoldsAxisReport(data')

\* The delta the specification prescribes for two consecutive raw samples.
ShortArc(last, current) ==
    LET n == current - last
    IN  IF n > 127 THEN n - 256 ELSE IF n < -127 THEN n + 256 ELSE n

\* C1: in every reachable state the accumulated steering position lies in
\* [-2045, 2045], and so does the steering value of every printed reading.
C1_PositionInRange ==
    /\ InRange(steer_position)
    /\ printed # None => InRange(Val(printed).steering)

\* A reading was printed at the upper limit after the running sum overshot it.
C1_Witness ==
    /\ steer_accum # None
    /\ Val(steer_accum) > STEER_MAX
    /\ steer_position = STEER_MAX
    /\ printed # None
    /\ Val(printed).steering = STEER_MAX

\* C2: the first report with id 0x07 of a session, whatever its steering
\* byte, prints steering 0, leaves the position at 0 and stores that byte
\* as the previous raw sample.
C2_FirstReport ==
    [][ (last_steer_raw = None /\ nTag7 = 0 /\ AxisReportStep)
        => /\ nPrinted' = nPrinted + 1
           /\ Val(printed').steering = 0
           /\ steer_position = 0
           /\ steer_position' = 0
           /\ last_steer_raw' = Some(At(Val(data'), STEER_BYTE_INDEX)) ]_vars

\* The first report carried the largest steering byte and was decoded.
C2_Witness ==
    /\ nTag7 = 1
    /\ nPrinted = 1
    /\ HoldsAxisReport(data)
    /\ At(Val(data), STEER_BYTE_INDEX) = 255
    /\ last_steer_raw = Some(255)
    /\ steer_position = 0

\* C3: for a report with id 0x07 and a previous sample present, the
\* position before clamping is the old position plus d, d being
\* current - last, less 256 above 127 and plus 256 below -127; 10 then 12
\* gives +2, 250 then 5 gives +11, 5 then 250 gives -11.
C3_DeltaAdvance ==
    [][ (last_steer_raw # None /\ AxisReportStep)
        => LET last == Val(last_steer_raw)
               current == At(Val(data'), STEER_BYTE_INDEX)
           IN  /\ steer_accum' = Some(steer_position + ShortArc(last, current))
               /\ (last = 10 /\ current = 12) => Val(steer_accum') = steer_position + 2
               /\ (last = 250 /\ current = 5) => Val(steer_accum') = steer_position + 11
               /\ (last = 5 /\ current = 250) => Val(steer_accum') = steer_position - 11 ]_vars

\* 250 then 5 was decoded as +11 from position 0.
C3_Witness ==
    /\ nTag7 = 2
    /\ last_steer_raw = Some(5)
    /\ delta = Some(11)
    /\ steer_accum = Some(11)
    /\ steer_position = 11

\* C4: at position 2045 a report with a positive corrected delta leaves the
\* position at 2045, and a report with corrected delta -k gives 2045 - k.
C4_ClampMax ==
    [][ (steer_position = STEER_MAX /\ last_steer_raw # None /\ AxisReportStep)
        => LET d == ShortArc(Val(last_steer_raw), At(Val(data'), STEER_BYTE_INDEX))
           IN  /\ d > 0 => steer_position' = STEER_MAX
               /\ d < 0 => steer_position' = STEER_MAX + d ]_vars

\* The position was exactly 2045, a positive delta arrived and it stayed.
C4_Witness ==
    /\ steer_accum # None
    /\ Val(delta) > 0
    /\ Val(steer_accum) - Val(delta) = STEER_MAX
    /\ steer_position = STEER_MAX

\* C5: at position -2045 a report with a negative corrected delta leaves
\* the position at -2045, and a report with corrected delta +k gives
\* -2045 + k.
C5_ClampMin ==
    [][ (steer_position = STEER_MIN /\ last_steer_raw # None /\ AxisReportStep)
        => LET d == ShortArc(Val(last_steer_raw), At(Val(data'), STEER_BYTE_INDEX))
           IN  /\ d < 0 => steer_position' = STEER_MIN
               /\ d > 0 => steer_position' = STEER_MIN + d ]_vars

\* The position was exactly -2045, a negative delta arrived and it stayed.
C5_Witness ==
    /\ steer_accum # None
    /\ Val(delta) < 0
    /\ Val(steer_accum) - Val(delta) = STEER_MIN
    /\ steer_position = STEER_MIN

\* C6 as stated: the printed brake value equals report[4] unmodified.
C6_BrakeNotInverted ==
    HoldsAxisReport(data) => Val(printed).brake = At(Val(data), BRAKE_BYTE_INDEX)

\* C6: the printed brake value is report[4] flipped, 255 - report[4]: raw
\* brake 0 prints 255 and raw brake 255 prints 0.
C6_BrakeInverted ==
    HoldsAxisReport(data) =>
        /\ Val(printed).brake = 255 - At(Val(data), BRAKE_BYTE_INDEX)
        /\ At(Val(data), BRAKE_BYTE_INDEX) = 0 => Val(printed).brake = 255
        /\ At(Val(data), BRAKE_BYTE_INDEX) = 255 => Val(printed).brake = 0

\* A report with raw brake 0 was decoded and printed.
C6_Witness ==
    /\ HoldsAxisReport(data)
    /\ At(Val(data), BRAKE_BYTE_INDEX) = 0
    /\ Val(printed).brake = 255

\* C7: the printed gas value equals 255 - report[3], lies in 0..255 and is
\* a function of the report just read alone.
C7_Gas ==
    HoldsAxisReport(data) =>
        /\ Val(printed).gas = 255 - At(Val(data), GAS_BYTE_INDEX)
        /\ Val(printed).gas \in 0..255

\* A report with raw gas 0 was decoded after an earlier report.
C7_Witness ==
    /\ HoldsAxisReport(data)
    /\ nTag7 = 2
    /\ At(Val(data), GAS_BYTE_INDEX) = 0
    /\ Val(printed).gas = 255

\* C8: a step that reads a report whose id is not 0x07 changes neither the
\* position nor the previous raw sample and prints nothing.
C8_FilterGating ==
    [][ HoldsOtherReport(data')
        => UNCHANGED <<last_steer_raw, steer_position, printed, nPrinted>> ]_vars

\* A report of another type, carrying steering byte 85, was read after raw
\* sample 0 had been decoded, and the decoder still holds sample 0.
C8_Witness ==
    /\ HoldsOtherReport(data)
    /\ At(Val(data), STEER_BYTE_INDEX) = 85
    /\ last_steer_raw = Some(0)
    /\ steer_position # 0
    /\ nPrinted > 1

\* C9: the number of printed readings equals the number of reports read
\* with id 0x07, in every state between two reads.
C9_OnePerAccepted == nPrinted = nTag7

\* Three readings were printed and the latest read was of another type.
C9_Witness ==
    /\ nTag7 = 3
    /\ nPrinted = 3
    /\ HoldsOtherReport(data)

\* C10: a step whose read returns no data changes neither the position nor
\* the previous raw sample and prints nothing.
C10_EmptyRead ==
    [][ data' = Some(<<>>)
        => UNCHANGED <<last_steer_raw, steer_position, printed, nPrinted>> ]_vars

\* An empty read happened after a report had been decoded.
C10_Witness ==
    /\ data = Some(<<>>)
    /\ last_steer_raw # None
    /\ steer_position # 0
    /\ nPrinted > 1
\* C12: after every report with id 0x07 the previous raw sample is that
\* report's byte 1, clamped or not, and the next delta is taken against it.
C12_LastRawAlwaysRecorded ==
    [][ AxisReportStep
        => /\ last_steer_raw' = Some(At(Val(data'), STEER_BYTE_INDEX))
           /\ last_steer_raw # None =>
                 delta' = Some(ShortArc(Val(last_steer_raw),
                                        At(Val(data'), STEER_BYTE_INDEX))) ]_vars

\* A report was cut by the upper clamp and its byte 1 is the stored sample.
C12_Witness ==
    /\ HoldsAxisReport(data)
    /\ clamp_altered
    /\ steer_accum # None
    /\ Val(steer_accum) > STEER_MAX
    /\ last_steer_raw = Some(At(Val(data), STEER_BYTE_INDEX))
    /\ Val(delta) > 0
Abs(x) == IF x < 0 THEN -x ELSE x

\* C13: the corrected delta of two consecutive raw samples is congruent to
\* current - last modulo 256 and no integer congruent to it is shorter.
\* With current - last in -255..255, the congruent integers within 256 of
\* zero are current - last + 256 k for k in -2..2; all others are longer.
C13_ShortestArc ==
    [][ (last_steer_raw # None /\ AxisReportStep)
        => LET n == At(Val(data'), STEER_BYTE_INDEX) - Val(last_steer_raw)
               d == Val(delta')
           IN  /\ (d - n) % 256 = 0
               /\ \A k \in -2..2 : Abs(d) <= Abs(n + 256 * k) ]_vars

\* 0 then 200 was decoded as -56, not +200.
C13_Witness ==
    /\ nTag7 = 2
    /\ first_steer_raw = Some(0)
    /\ last_steer_raw = Some(200)
    /\ delta = Some(-56)
\* C14: the only step that changes the position is a report with id 0x07
\* read while a previous sample is present, and it sets the position to the
\* old position plus the corrected delta of the two samples, limited to
\* [-2045, 2045]; every other step leaves the position as it is.
C14_PositionOnlyByDelta ==
    [][ IF last_steer_raw # None /\ AxisReportStep
        THEN LET sum == steer_position
                        + ShortArc(Val(last_steer_raw),
                                   At(Val(data'), STEER_BYTE_INDEX))
             IN  steer_position' = IF sum > STEER_MAX THEN STEER_MAX
                                   ELSE IF sum < STEER_MIN THEN STEER_MIN
                                   ELSE sum
        ELSE steer_position' = steer_position ]_vars

\* After several reports the position differs from the raw sample held and
\* is the running sum of the deltas, untouched by the clamp.
C14_Witness ==
    /\ HoldsAxisReport(data)
    /\ nTag7 > 2
    /\ ~clamp_altered
    /\ delta # None
    /\ Val(delta) # 0
    /\ steer_position = Val(steer_accum)
    /\ steer_position # Val(last_steer_raw)
\* The position agrees modulo 256 with the raw distance travelled since the
\* first decoded sample.
CongruentToRaw ==
    (steer_position - (Val(last_steer_raw) - Val(first_steer_raw))) % 256 = 0

\* C15: as long as the clamp has never altered the position since the first
\* decoded report, the position is congruent modulo 256 to the previous raw
\* sample minus the raw sample of the first decoded report.
C15_CongruentUntilClamped ==
    (first_steer_raw # None /\ ~clamp_altered) => CongruentToRaw

\* More than one full turn of the encoder was accumulated without clamping.
C15_Witness ==
    /\ first_steer_raw # None
    /\ ~clamp_altered
    /\ steer_position > 512
    /\ last_steer_raw # first_steer_raw

\* C15, second half: once the clamp has altered the position the
\* congruence can fail; this state is reachable.
C15_BrokenAfterClamp ==
    /\ first_steer_raw # None
    /\ clamp_altered
    /\ ~CongruentToRaw
\* The raw sample that preceded the one now held, recovered from the last
\* delta (the two differ by it modulo 256).
SampleBeforeLast == (Val(last_steer_raw) - Val(delta)) % 256

\* C16: when the previous raw sample b was reached from a without clamping
\* and the next report carries a again, also without clamping, the position
\* is back where it was before the step to b.
C16_RoundTrip ==
    [][ ( /\ delta # None
          /\ Val(steer_accum) = steer_position
          /\ AxisReportStep
          /\ At(Val(data'), STEER_BYTE_INDEX) = SampleBeforeLast
          /\ Val(steer_accum') = steer_position' )
        => /\ steer_position' = steer_position - Val(delta)
           /\ Val(delta') = -Val(delta) ]_vars

\* 0, 128, 0: the half-turn out was decoded as -128 and the way back as +128.
C16_Witness ==
    /\ nTag7 = 3
    /\ first_steer_raw = Some(0)
    /\ last_steer_raw = Some(0)
    /\ delta = Some(128)
    /\ steer_position = 0
\* C17: one report with id 0x07 never moves the position by more than 128
\* either way, and the corrected delta lies in -128..128.
C17_StepAtMost128 ==
    [][ AxisReportStep
        => /\ Abs(steer_position' - steer_position) <= 128
           /\ delta' # None => (-128 <= Val(delta') /\ Val(delta') <= 128) ]_vars

\* 128 then 0 moved the position by the full +128.
C17_Witness ==
    /\ nTag7 = 2
    /\ first_steer_raw = Some(128)
    /\ last_steer_raw = Some(0)
    /\ delta = Some(128)
    /\ steer_position = 128
\* The polling loop has been left through an exception.
Stopped == pc \in {"finally", "done"}

\* C18: once an I/O error or an interrupt has stopped the loop, no report
\* is read or decoded, nothing is printed and the decoder state stays as it
\* is; the handle, if one was created, is closed, once, and only then is
\* the function done.
C18_StopsAndCloses ==
    /\ [](closes <= 1)
    /\ [](pc = "done" => \/ device = "none" /\ closes = 0
                         \/ device = "closed" /\ closes = 1)
    /\ [][ Stopped => /\ UNCHANGED <<data, decoder, output, nTag7>>
                      /\ Stopped' ]_vars
    /\ (pc = "finally") ~> (pc = "done")

\* A session that printed readings was stopped and its handle closed once.
C18_Witness ==
    /\ pc = "done"
    /\ device = "closed"
    /\ closes = 1
    /\ nPrinted > 0
====
